---- MODULE Spec2Model ----
(***************************************************************************)
(* A model of python-eventide: the pending-write buffer of MessageDB       *)
(* (src/eventide/messagedb.py) and the Message / Metadata model            *)
(* (src/eventide/message.py).                                               *)
(*                                                                         *)
(* Spec        the pending queue, its producers, write_pending_messages    *)
(*             and write_message.                                          *)
(* SpecC       scenario C of the specification on the same buffer.         *)
(* SpecFollow  Message objects, their Metadata and follow / follows.       *)
(* SpecChain   a chain of messages, each following the one before it.      *)
(* SpecEq      messagecls, Message construction and equality.              *)
(* SpecSerde   serialize, MessageData.from_record and                      *)
(*             Message.from_messagedata.                                   *)
(* SpecStream  the parsing of stream names.                                *)
(* SpecOrder   the comparison operators of MessageData.                    *)
(* SpecPool    setup() and shutdown() of one MessageDB.                    *)
(* SpecStore   concurrent clients of the store: write_message and the      *)
(*             readers of the last message, with a backend that may fail.  *)
(***************************************************************************)
EXTENDS Integers, Sequences, FiniteSets, TLC

VARIABLES
    maxsize,    \* MessageDB.__init__: max_pending, the Queue's maxsize
    pending,    \* MessageDB._pending: the items held by the asyncio.Queue
    putters,    \* the Queue's FIFO of suspended put() calls (producers)
    pc,         \* per producer: where its queue_message call stands
    item,       \* per producer: the SerializedMessage its suspended put holds
    nextId,     \* the next message id to be generated (uuid4 stands for it)
    store,      \* the rows committed in the message store, in commit order
    flush,      \* the outcome of the last write_pending_messages call
    promoted,   \* how many attributes of Metadata are dataclass fields
    heap,       \* the Message objects, by name
    kinds,      \* the classes messagecls has made: name -> metadata field names
    op,         \* the last operation applied to the heap
    steps,      \* operations applied so far, by name of operation
    wire,       \* the last SerializedMessage made by serialize()
    mdata,      \* the last MessageData made by from_record()
    result,     \* the outcome of the last from_messagedata() call
    arg,        \* the argument of the last call of a pure function
    out,        \* what that call returned
    clock,      \* the backend's clock
    txn,        \* per client: the write_message transaction it has open
    call,       \* the client call that completed last, and its outcome
    pool,       \* MessageDB._pool, and the pools created and closed so far
    setup       \* per client: where its setup() call stands

bufferVars == <<maxsize, pending, putters, pc, item, nextId, store, flush>>
messageVars == <<promoted, heap, kinds, op, steps, wire, mdata, result>>
storeVars == <<clock, txn, call>>
poolVars == <<pool, setup>>
auxVars == <<arg, out, storeVars, poolVars>>
vars == <<bufferVars, messageVars, auxVars>>

(***************************************************************************)
(* Bounds of the model.                                                    *)
(***************************************************************************)
MaxPending == 5      \* the largest max_pending tried
MaxMsgs == 5         \* messages created in one behaviour
MaxSets == 2         \* attribute assignments on Metadata objects
MaxFollows == 1      \* follow() calls
MaxPasses == 1       \* messagecls() calls
MaxStore == 1        \* rows written by write_message in one behaviour
MaxLen == 5          \* characters of a stream name
MaxPos == 3          \* the largest global_position of a MessageData compared
MaxRows == 2         \* rows the clients of the store write in one behaviour
MaxClock == 1        \* the latest time the backend's clock shows
MaxSetups == 4       \* setup() calls made in one behaviour
MaxChain == 2        \* follow() calls of a chain of messages
MaxNoReply == 1      \* do_not_reply() calls

Producers == {"p1", "p2"}       \* concurrent callers of queue_message
Clients == {"c1", "c2"}         \* concurrent callers of the store's verbs
Types == {"A", "B"}              \* the message kinds (class names) in use
\* An optional value: Python's None is the empty tuple, a value v is <<v>>.
None == <<>>
Some(v) == <<v>>

(***************************************************************************)
(* SerializedMessage (message.py:160-167).  The buffer reads only `type`;  *)
(* the other columns travel with the tuple to the write verb.              *)
(***************************************************************************)
SerializedMessage(id, stream_name, type, data, metadata, expected_version) ==
    [id |-> id, stream_name |-> stream_name, type |-> type, data |-> data,
     metadata |-> metadata, expected_version |-> expected_version]

StreamOf(t) == "stream-" \o t

\* message.serialize(stream_name) as queue_message calls it: no
\* expected_version; the payload of these messages is empty.
Serialized(id, t) == SerializedMessage(id, StreamOf(t), t, "{}", "{}", None)

(***************************************************************************)
(* asyncio.Queue as MessageDB uses it (messagedb.py:81, 166, 173-185).     *)
(***************************************************************************)
\* Queue.full(): a maxsize <= 0 makes the queue unbounded.
Full(q) == maxsize > 0 /\ Len(q) >= maxsize

Min(a, b) == IF a <= b THEN a ELSE b

\* math.ceil(self._pending.maxsize / 4.0)
SplitN == (maxsize + 3) \div 4

(***************************************************************************)
(* cytoolz groupby(attrgetter('type'), pending): a dict keyed by type in   *)
(* order of first appearance, each group keeping the order of `pending`.   *)
(***************************************************************************)
TypesIn(s) == {s[i].type : i \in 1..Len(s)}

FirstIndex(s, t) == CHOOSE i \in 1..Len(s) :
    s[i].type = t /\ \A j \in 1..(i - 1) : s[j].type # t

\* The k-th key of the dict is the type that k-1 other types precede.
TypeOrder(s) ==
    [k \in 1..Cardinality(TypesIn(s)) |->
        CHOOSE t \in TypesIn(s) :
            Cardinality({u \in TypesIn(s) : FirstIndex(s, u) < FirstIndex(s, t)}) = k - 1]

HasType(m, t) == m.type = t

Group(s, t) == SelectSeq(s, LAMBDA m : HasType(m, t))

\* cytoolz partition_all(n, items): tuples of n items, the last one shorter.
PartitionAll(n, s) ==
    [k \in 1..((Len(s) + n - 1) \div n) |->
        SubSeq(s, (k - 1) * n + 1, Min(k * n, Len(s)))]

\* The bundles in the order the two nested for loops reach them
\* (messagedb.py:188-190).
RECURSIVE BundlesOf(_, _, _)
BundlesOf(order, s, n) ==
    IF order = <<>> THEN <<>>
    ELSE PartitionAll(n, Group(s, Head(order))) \o BundlesOf(Tail(order), s, n)

Bundles(s, n) == BundlesOf(TypeOrder(s), s, n)

(***************************************************************************)
(* `for idx, bundle in partition_all(split_n, items)` (messagedb.py:190)   *)
(* unpacks every tuple partition_all yields into the two names: a tuple of *)
(* one or of more than two messages raises ValueError at the unpacking; a  *)
(* tuple of exactly two binds idx to a SerializedMessage, and the          *)
(* '...%d' % idx of line 191 then raises TypeError (a SerializedMessage is *)
(* a tuple whose first column is a str).  No connection is acquired.       *)
(***************************************************************************)
UnpackError(bundle) == IF Len(bundle) = 2 THEN "TypeError" ELSE "ValueError"

\* The last write_pending_messages call: how it ended ("returned" a count or
\* "raised" an exception), the count it returned, the exception it raised and
\* the messages it took out of the queue (its local list `pending`).
NoFlush ==
    [outcome |-> "none", total |-> None, error |-> "", drained |-> <<>>,
     earlier |-> {}]

\* The ids of the messages that the write_pending_messages calls made so far
\* have taken out of the queue.
Taken == flush.earlier \cup {flush.drained[i].id : i \in 1..Len(flush.drained)}

\* queue_message as a drop-oldest buffer: a full queue gives up its oldest
\* item to take the new one.
QueueMessageDropOldest(p, t) ==
    /\ pc[p] = "idle"
    /\ nextId' = nextId + 1
    /\ pending' = IF Full(pending)
                  THEN Append(Tail(pending), Serialized(nextId, t))
                  ELSE Append(pending, Serialized(nextId, t))
    /\ UNCHANGED <<maxsize, putters, pc, item, store, flush>>
    /\ UNCHANGED <<messageVars, auxVars>>

(***************************************************************************)
(* queue_message (messagedb.py:161-166): serialize, then Queue.put, which  *)
(* suspends the caller on a future while the queue is full.                *)
(***************************************************************************)
QueueMessage(p, t) ==
    /\ pc[p] = "idle"
    /\ nextId' = nextId + 1
    /\ \/ /\ Full(pending)
          /\ putters' = Append(putters, p)
          /\ pc' = [pc EXCEPT ![p] = "waiting"]
          /\ item' = [item EXCEPT ![p] = Some(Serialized(nextId, t))]
          /\ UNCHANGED pending
       \/ /\ ~Full(pending)
          /\ pending' = Append(pending, Serialized(nextId, t))
          /\ UNCHANGED <<putters, pc, item>>
    /\ UNCHANGED <<maxsize, store, flush>>
    /\ UNCHANGED <<messageVars, auxVars>>

\* A put() whose future a get has resolved runs again: Queue.put re-tests
\* full() in its while loop and either waits once more or appends.
PutResume(p) ==
    /\ pc[p] = "woken"
    /\ \/ /\ Full(pending)
          /\ putters' = Append(putters, p)
          /\ pc' = [pc EXCEPT ![p] = "waiting"]
          /\ UNCHANGED <<pending, item>>
       \/ /\ ~Full(pending)
          /\ pending' = Append(pending, item[p][1])
          /\ pc' = [pc EXCEPT ![p] = "idle"]
          /\ item' = [item EXCEPT ![p] = None]
          /\ UNCHANGED putters
    /\ UNCHANGED <<maxsize, nextId, store, flush>>
    /\ UNCHANGED <<messageVars, auxVars>>

\* Queue.get_nowait wakes the first waiting putter; n gets wake the first n.
Woken(n) == {putters[i] : i \in 1..Min(n, Len(putters))}

(***************************************************************************)
(* write_pending_messages (messagedb.py:168-197).  `await get()` on a      *)
(* non-empty queue does not suspend, and nothing up to the failing         *)
(* unpacking of the first bundle does, so the call is one step of the      *)
(* event loop.                                                             *)
(***************************************************************************)
\* write_pending_messages reading the queue without taking the items out.
WritePendingMessagesPeek ==
    /\ \/ /\ pending = <<>>
          /\ flush' = [NoFlush EXCEPT !.outcome = "returned", !.total = Some(0),
                                      !.earlier = Taken]
          /\ UNCHANGED <<pending, putters, pc>>
       \/ /\ pending # <<>>
          /\ flush' = [outcome |-> "raised", total |-> None,
                       error |-> UnpackError(Bundles(pending, SplitN)[1]),
                       drained |-> pending, earlier |-> Taken]
          /\ UNCHANGED <<pending, putters, pc>>
    /\ UNCHANGED <<maxsize, item, nextId, store>>
    /\ UNCHANGED <<messageVars, auxVars>>

WritePendingMessages ==
    /\ \/ /\ pending = <<>>
          /\ flush' = [NoFlush EXCEPT !.outcome = "returned", !.total = Some(0),
                                      !.earlier = Taken]
          /\ UNCHANGED <<pending, putters, pc>>
       \/ /\ pending # <<>>
          /\ LET drained == pending
                 bundles == Bundles(drained, SplitN)
                 n == Len(drained)
             IN /\ pending' = <<>>
                /\ pc' = [p \in Producers |->
                            IF p \in Woken(n) THEN "woken" ELSE pc[p]]
                /\ putters' = SubSeq(putters, Min(n, Len(putters)) + 1, Len(putters))
                /\ flush' = [outcome |-> "raised", total |-> None,
                             error |-> UnpackError(bundles[1]),
                             drained |-> drained, earlier |-> Taken]
    /\ UNCHANGED <<maxsize, item, nextId, store>>
    /\ UNCHANGED <<messageVars, auxVars>>

(***************************************************************************)
(* write_message (messagedb.py:150-159): one synchronous write.  The store *)
(* procedure assigns the positions; it raises when expected_version is     *)
(* given and differs from the stream's version, and the backend may fail.  *)
(***************************************************************************)
StreamRows(rows, s) == SelectSeq(rows, LAMBDA r : r.stream_name = s)

StreamVersion(rows, s) == Len(StreamRows(rows, s)) - 1

Row(msg, rows) ==
    [id |-> msg.id, stream_name |-> msg.stream_name, type |-> msg.type,
     position |-> StreamVersion(rows, msg.stream_name) + 1,
     global_position |-> Len(rows) + 1]

WriteMessage(t, expected_version, backend_ok) ==
    /\ nextId' = nextId + 1
    /\ LET msg == SerializedMessage(nextId, StreamOf(t), t, "{}", "{}",
                                    expected_version)
           accepted == /\ backend_ok
                       /\ \/ expected_version = None
                          \/ expected_version = Some(StreamVersion(store, msg.stream_name))
       IN store' = IF accepted THEN Append(store, Row(msg, store)) ELSE store
    /\ UNCHANGED <<maxsize, pending, putters, pc, item, flush>>
    /\ UNCHANGED <<messageVars, auxVars>>

ExpectedVersions == {None, Some(-1), Some(0)}

\* self._pool = None (messagedb.py:79): no pool yet, none created or closed.
NoPool == [current |-> None, created |-> 0, closed |-> {}, calls |-> 0]

\* No call has been made yet.
NoCalls ==
    /\ arg = None
    /\ out = None
    /\ clock = 0
    /\ txn = [c \in Clients |-> None]
    /\ call = None
    /\ pool = NoPool
    /\ setup = [c \in Clients |-> "idle"]

\* A MessageDB just constructed with max_pending = n.
NewMessageDB(n) ==
    /\ NoCalls
    /\ maxsize = n
    /\ pending = <<>>
    /\ putters = <<>>
    /\ pc = [p \in Producers |-> "idle"]
    /\ item = [p \in Producers |-> None]
    /\ nextId = 1
    /\ store = <<>>
    /\ flush = NoFlush

\* No Message object exists; Metadata is as the import of message.py leaves
\* it (see Promoted below).
NoMessages ==
    /\ promoted = 1
    /\ heap = <<>>
    /\ kinds = <<>>
    /\ op = <<>>
    /\ steps = <<>>
    /\ wire = None
    /\ mdata = None
    /\ result = None

Init ==
    /\ \E n \in 1..MaxPending : NewMessageDB(n)
    /\ NoMessages

Next ==
    \/ \E p \in Producers, t \in Types : nextId <= MaxMsgs /\ QueueMessage(p, t)
    \/ \E p \in Producers : PutResume(p)
    \/ WritePendingMessages
    \/ \E t \in Types, ev \in ExpectedVersions, ok \in BOOLEAN :
          nextId <= MaxMsgs /\ Len(store) < MaxStore /\ WriteMessage(t, ev, ok)

Spec == Init /\ [][Next]_vars

(***************************************************************************)
(* Scenario C of the specification: 120 messages of 3 types, 40 of each,   *)
(* are enqueued in a buffer of capacity 128 (the default max_pending,      *)
(* messagedb.py:72) and flushed once.  The messages arrive either          *)
(* round-robin over the types or type after type.                          *)
(***************************************************************************)
ScenarioC == [capacity |-> 128, messages |-> 120, per_type |-> 40,
              bundle_size |-> 50, max_bundles |-> 3]

ScenarioTypes == <<"A", "B", "C">>

RoundRobinType(i) == ScenarioTypes[((i - 1) % 3) + 1]

BlockType(i) == ScenarioTypes[((i - 1) \div ScenarioC.per_type) + 1]

FollowsPattern(q, T(_)) == \A i \in 1..Len(q) : q[i].type = T(i)

ScenarioEnqueue ==
    /\ Len(pending) < ScenarioC.messages
    /\ flush.outcome = "none"
    /\ \E t \in {RoundRobinType(nextId), BlockType(nextId)} :
          /\ QueueMessage("p1", t)
          /\ \/ FollowsPattern(pending', RoundRobinType)
             \/ FollowsPattern(pending', BlockType)

ScenarioFlush ==
    /\ Len(pending) = ScenarioC.messages
    /\ WritePendingMessages

InitC ==
    /\ NewMessageDB(ScenarioC.capacity)
    /\ NoMessages

NextC == ScenarioEnqueue \/ ScenarioFlush

SpecC == InitC /\ [][NextC]_vars

(***************************************************************************)
(* Claims about the pending buffer.                                        *)
(***************************************************************************)
Committed(m) == \E i \in 1..Len(store) : store[i].id = m.id

CommittedCount(s) == Cardinality({i \in 1..Len(s) : Committed(s[i])})

FlushBundles == Bundles(flush.drained, SplitN)

\* C1: a flush of the N messages enqueued in the buffer returns exactly N as
\* the committed count, and none of its type-group bundles is larger than the
\* maximum bundle size.
C1_BufferProperty ==
    flush.outcome # "none" =>
        /\ flush.outcome = "returned"
        /\ flush.total = Some(Len(flush.drained))
        /\ \A b \in 1..Len(FlushBundles) : Len(FlushBundles[b]) <= SplitN

\* C2: when a bundle fails during a flush, the caller is still given a count,
\* and that count is the number of records of the bundles committed before
\* the failing one: the failing bundle and the later ones add 0 to it.
C2_PartialFailure ==
    flush.outcome = "raised" =>
        flush.total = Some(CommittedCount(flush.drained))

\* C3: every bundle of a flush is written in one transaction: once the call
\* has ended, all the messages of a bundle are committed, or none of them is
\* and the store failed (or the call was cancelled) while writing the bundle.
StoreFailures == {"PostgresError", "MessageDBError", "CancelledError"}

C3_BundleAtomicity ==
    flush.outcome # "none" =>
        \A b \in 1..Len(FlushBundles) :
            \/ \A i \in 1..Len(FlushBundles[b]) : Committed(FlushBundles[b][i])
            \/ /\ \A i \in 1..Len(FlushBundles[b]) : ~Committed(FlushBundles[b][i])
               /\ flush.error \in StoreFailures

\* C4: the pending buffer never holds more messages than its capacity; a
\* queue_message call made while the buffer is full suspends, holding its
\* message, until a slot has been freed, and when it completes its message is
\* the newest item of the buffer; no step other than a flush takes a message
\* out of the buffer.
IsPrefix(q, r) == Len(q) <= Len(r) /\ SubSeq(r, 1, Len(q)) = q

Suspended(p) == pc[p] \in {"waiting", "woken"}

BackpressureStep ==
    /\ Len(pending') <= maxsize'
    /\ flush' = flush => IsPrefix(pending, pending')
    /\ \A p \in Producers :
          /\ (pc[p] = "idle" /\ Suspended(p)') =>
                /\ Len(pending) >= maxsize
                /\ pending' = pending
                /\ item'[p] # None
          /\ (pc[p] = "waiting" /\ pc'[p] = "woken") =>
                Len(pending') < Len(pending)
          /\ (Suspended(p) /\ Suspended(p)') => item'[p] = item[p]
          /\ (Suspended(p) /\ pc'[p] = "idle") =>
                /\ Len(pending) < maxsize
                /\ pending' = Append(pending, item[p][1])
    /\ (nextId' # nextId /\ store' = store /\ pending' # pending) =>
          /\ pending' = Append(pending, pending'[Len(pending')])
          /\ pending'[Len(pending')].id = nextId

C4_Backpressure == [](Len(pending) <= maxsize) /\ [][BackpressureStep]_vars

\* A producer is suspended on a full buffer after a flush has run, and
\* another one, suspended before that flush, has had its message taken in.
C4_Witness ==
    /\ Len(pending) = maxsize
    /\ flush.outcome = "raised"
    /\ \E p, q \in Producers :
          /\ pc[p] = "waiting"
          /\ pc[q] = "idle"
          /\ \E i \in 1..Len(pending) :
                /\ pending[i].id < item[p][1].id
                /\ \A j \in 1..Len(flush.drained) : flush.drained[j].id > pending[i].id

\* C5: within one flush, of two messages of the same type the one enqueued
\* first is submitted to the store's write verb first.
C5_TypeGroupOrder ==
    flush.outcome # "none" =>
        \A i, j \in 1..Len(flush.drained) :
            (i < j /\ flush.drained[i].type = flush.drained[j].type) =>
                \E a, b \in 1..Len(store) :
                    /\ a < b
                    /\ store[a].id = flush.drained[i].id
                    /\ store[b].id = flush.drained[j].id

\* C6: Scenario C: the flush of the 120 messages returns 120 and writes at
\* most 3 bundles, one per type.
C6_ScenarioC ==
    flush.outcome # "none" =>
        /\ flush.outcome = "returned"
        /\ flush.total = Some(ScenarioC.messages)
        /\ Len(FlushBundles) <= ScenarioC.max_bundles

(***************************************************************************)
(* Metadata (message.py:20-93).                                            *)
(*                                                                         *)
(* The ten attributes of the class are all bound to ONE Field object,      *)
(* f_blank (line 20).  dataclass() names a Field object after the          *)
(* attribute it finds it on, so after the class is processed the shared    *)
(* object bears the name of the last attribute that still holds it: only   *)
(* that attribute becomes a dataclass field and has its class attribute    *)
(* replaced by the default None; the earlier ones stay class attributes    *)
(* whose value is the Field object itself.  @dataclass at line 23 makes    *)
(* `time` a field; every messagecls() call processes Metadata again (line  *)
(* 327) and makes the next attribute from the end a field.  __init__ and   *)
(* __eq__ are generated at line 23 only (dataclass never overwrites them): *)
(* they know `time` alone.                                                 *)
(***************************************************************************)
MetaNames == <<"stream_name", "position", "global_position",
               "causation_message_stream_name", "causation_message_position",
               "causation_message_global_position", "correlation_stream_name",
               "reply_stream_name", "schema_version", "time">>

\* fields(Metadata) once n attributes have been made fields.
Fields(n) == {MetaNames[i] : i \in (Len(MetaNames) - n + 1)..Len(MetaNames)}

\* The Field object f_blank, as a value read from an attribute.
FieldObject == Some("<Field>")

\* getattr(Metadata, name): the class attribute behind an unassigned one.
ClassAttr(name) == IF name \in Fields(promoted) THEN None ELSE FieldObject

\* Metadata(): the generated __init__(self, time=None) assigns time only.
\* An instance is its __dict__: the attributes assigned on it.
NewMetadata == [n \in {"time"} |-> None]

GetAttr(md, name) == IF name \in DOMAIN md THEN md[name] ELSE ClassAttr(name)

SetAttr(md, name, v) ==
    [x \in DOMAIN md \cup {name} |-> IF x = name THEN v ELSE md[x]]

(***************************************************************************)
(* Message objects (message.py:170-235) live in `heap`; each owns the      *)
(* Metadata object its default_factory made (line 182).                    *)
(***************************************************************************)
Objs == {"m1", "m2"}

UUID(o) == <<"UUID", o>>

NewMessage(o, kind, data) ==
    [id |-> UUID(o), kind |-> kind, metadata |-> NewMetadata, data |-> data]

HeapGet(h, o, name) == GetAttr(h[o].metadata, name)

HeapSet(h, o, name, v) == [h EXCEPT ![o].metadata = SetAttr(@, name, v)]

\* Metadata.follow with every own attribute of `other` copied as well.
MetadataFollowAll(h, self, other) ==
    LET h1 == HeapSet(h, self, "causation_message_stream_name",
                      HeapGet(h, other, "stream_name"))
        h2 == HeapSet(h1, self, "causation_message_position",
                      HeapGet(h1, other, "position"))
        h3 == HeapSet(h2, self, "causation_message_global_position",
                      HeapGet(h2, other, "global_position"))
        h4 == HeapSet(h3, self, "correlation_stream_name",
                      HeapGet(h3, other, "correlation_stream_name"))
        h5 == HeapSet(h4, self, "reply_stream_name",
                      HeapGet(h4, other, "reply_stream_name"))
        h6 == HeapSet(h5, self, "stream_name", HeapGet(h5, other, "stream_name"))
        h7 == HeapSet(h6, self, "position", HeapGet(h6, other, "position"))
    IN  HeapSet(h7, self, "global_position", HeapGet(h7, other, "global_position"))

\* Metadata.follow (message.py:77-83) on the Metadata objects of two
\* messages, which may be one and the same: five assignments in order.
MetadataFollow(h, self, other) ==
    LET h1 == HeapSet(h, self, "causation_message_stream_name",
                      HeapGet(h, other, "stream_name"))
        h2 == HeapSet(h1, self, "causation_message_position",
                      HeapGet(h1, other, "position"))
        h3 == HeapSet(h2, self, "causation_message_global_position",
                      HeapGet(h2, other, "global_position"))
        h4 == HeapSet(h3, self, "correlation_stream_name",
                      HeapGet(h3, other, "correlation_stream_name"))
    IN  HeapSet(h4, self, "reply_stream_name",
                HeapGet(h4, other, "reply_stream_name"))

\* Metadata.follows (message.py:85-90), through Message.follows (234-235).
Follows(h, self, other) ==
    /\ HeapGet(h, self, "causation_message_stream_name")
         = HeapGet(h, other, "stream_name")
    /\ HeapGet(h, self, "causation_message_position")
         = HeapGet(h, other, "position")
    /\ HeapGet(h, self, "causation_message_global_position")
         = HeapGet(h, other, "global_position")
    /\ HeapGet(h, self, "correlation_stream_name")
         = HeapGet(h, other, "correlation_stream_name")
    /\ HeapGet(h, self, "reply_stream_name")
         = HeapGet(h, other, "reply_stream_name")

Count(k) == steps[k]

Step(k) == steps' = [steps EXCEPT ![k] = @ + 1]

\* Message.follow with self and other exchanged.
FollowSwapped(self, other) ==
    /\ heap' = MetadataFollow(heap, other, self)
    /\ op' = <<"follow", self, other>>
    /\ Step("follow")
    /\ UNCHANGED <<promoted, kinds, wire, mdata, result>>
    /\ UNCHANGED <<bufferVars, auxVars>>

\* Message.follow (message.py:230-232).
Follow(self, other) ==
    /\ heap' = MetadataFollow(heap, self, other)
    /\ op' = <<"follow", self, other>>
    /\ Step("follow")
    /\ UNCHANGED <<promoted, kinds, wire, mdata, result>>
    /\ UNCHANGED <<bufferVars, auxVars>>

\* The values assigned to the attributes: stream names and positions.
StreamNames == {Some("str:order-1"), Some("str:order-2")}
Positions == {Some("int:1")}

ValuesOf(name) ==
    IF name \in {"stream_name", "causation_message_stream_name",
                 "correlation_stream_name", "reply_stream_name"}
    THEN StreamNames
    ELSE IF name = "schema_version" THEN {Some("str:v1")}
    ELSE IF name = "time" THEN {Some("float:1.5")}
    ELSE Positions

\* The attributes that follow() reads: what a message is given once stored
\* (its own identity) and the workflow it belongs to.
FollowNames == {"stream_name", "position", "global_position",
                "correlation_stream_name", "reply_stream_name"}

\* message.metadata.<name> = v: Metadata is not frozen (line 23).
SetMetadata(o, name, v) ==
    /\ heap' = HeapSet(heap, o, name, v)
    /\ op' = <<"set", o, name>>
    /\ Step("set")
    /\ UNCHANGED <<promoted, kinds, wire, mdata, result>>
    /\ UNCHANGED <<bufferVars, auxVars>>

\* The classes of the model.  Message is the base class; Plain is a
\* subclass made with @dataclass(eq=False), which keeps Message.__eq__ and
\* whose `metadata` field carries no field names; Foo and Bar are made by
\* @messagecls with the default msg_meta.
DecoratedKinds == {"Foo", "Bar"}

\* messagecls (message.py:263-332): line 327 processes Metadata again, so
\* one more attribute becomes a field; wrap() then records fields(msg_meta)
\* on the `metadata` field of the new class (lines 296, 310).
Messagecls(k) ==
    /\ k \notin DOMAIN kinds
    /\ promoted < Len(MetaNames)
    /\ promoted' = promoted + 1
    /\ kinds' = [x \in DOMAIN kinds \cup {k} |->
                   IF x = k THEN Fields(promoted + 1) ELSE kinds[x]]
    /\ op' = <<"messagecls", k>>
    /\ Step("messagecls")
    /\ UNCHANGED <<heap, wire, mdata, result>>
    /\ UNCHANGED <<bufferVars, auxVars>>

\* No MessageDB is constructed.
NoMessageDB == NewMessageDB(0)

NoSteps == [k \in {"set", "follow", "messagecls", "new", "do_not_reply"} |-> 0]

InitFollow ==
    /\ NoMessageDB
    /\ promoted = 1
    /\ heap = [o \in Objs |-> NewMessage(o, "Message", <<>>)]
    /\ kinds = <<>>
    /\ op = <<>>
    /\ steps = NoSteps
    /\ wire = None
    /\ mdata = None
    /\ result = None

NextFollow ==
    \/ \E o \in Objs, name \in FollowNames : \E v \in ValuesOf(name) :
          Count("set") < MaxSets /\ SetMetadata(o, name, v)
    \/ \E self, other \in Objs : Count("follow") < MaxFollows /\ Follow(self, other)
    \/ \E k \in DecoratedKinds : Count("messagecls") < MaxPasses /\ Messagecls(k)

SpecFollow == InitFollow /\ [][NextFollow]_vars

(***************************************************************************)
(* Claims about follow / follows.                                          *)
(***************************************************************************)
OwnNames == {"stream_name", "position", "global_position"}

\* Every field of message o reads the same after the step as before it.
SameFields(o) ==
    /\ heap'[o].id = heap[o].id
    /\ heap'[o].kind = heap[o].kind
    /\ heap'[o].data = heap[o].data
    /\ \A i \in 1..Len(MetaNames) :
          HeapGet(heap, o, MetaNames[i])' = HeapGet(heap, o, MetaNames[i])

AfterFollow(child, parent) ==
    /\ Follows(heap, child, parent)'
    /\ \A name \in OwnNames :
          HeapGet(heap, child, name)' = HeapGet(heap, child, name)
    /\ heap'[child].id = heap[child].id
    /\ heap'[child].data = heap[child].data

\* C7 as claimed: after child.follow(parent), child.follows(parent) is true,
\* child's own stream_name, position and global_position are unchanged, and
\* no field of parent is changed -- for all messages child and parent.
C7_FollowFrame_Original ==
    [][\A child, parent \in Objs :
          op' = <<"follow", child, parent>> =>
              /\ AfterFollow(child, parent)
              /\ SameFields(parent)]_vars

\* C7 as amended: after child.follow(parent), child.follows(parent) is true
\* and child's own stream_name, position and global_position are unchanged;
\* no field of parent is changed when parent is another object than child
\* (m.follow(m) rewrites m's own causation fields).
C7_FollowFrame ==
    [][\A child, parent \in Objs :
          op' = <<"follow", child, parent>> =>
              /\ AfterFollow(child, parent)
              /\ child # parent => SameFields(parent)]_vars

\* A child with a stream name of its own has followed a parent stored in
\* another stream at a known position.
C7_Witness ==
    \E child, parent \in Objs :
        /\ child # parent
        /\ op = <<"follow", child, parent>>
        /\ HeapGet(heap, parent, "stream_name") \in StreamNames
        /\ HeapGet(heap, child, "stream_name") \in StreamNames
        /\ HeapGet(heap, child, "stream_name") # HeapGet(heap, parent, "stream_name")
        /\ HeapGet(heap, child, "causation_message_stream_name")
             = HeapGet(heap, parent, "stream_name")

(***************************************************************************)
(* Message kinds, construction and equality (message.py:170-228, 263-332). *)
(***************************************************************************)
\* The metadata attributes the clients of the model assign.
SerdeNames == {"time", "schema_version"}

Decorated(k) == k \in DOMAIN kinds

Defined(k) == k \in {"Message", "Plain"} \/ Decorated(k)

\* cls.__dataclass_fields__['metadata'].metadata or {} (line 195).
MetaFieldsOf(k) == IF Decorated(k) THEN kinds[k] ELSE {}

\* The declared payload fields of each class; none has a default.
KindPayload(k) ==
    IF k = "Message" THEN {} ELSE IF k = "Plain" THEN {"a"} ELSE {"a", "b"}

\* The payload values the clients construct messages with: a is an int,
\* b is an Optional[str].
PayloadValues(k, name) ==
    IF name = "b" THEN {None, Some("str:x")}
    ELSE IF k = "Plain" THEN {Some("int:1"), Some("int:2")}
    ELSE {Some("int:1")}

Payloads(k) ==
    {d \in [KindPayload(k) -> {None, Some("int:1"), Some("int:2"), Some("str:x")}] :
        \A name \in KindPayload(k) : d[name] \in PayloadValues(k, name)}

\* cls(**payload): a new message with a fresh id and a fresh Metadata.
Create(o, k, data) ==
    /\ o \notin DOMAIN heap
    /\ Defined(k)
    /\ heap' = [x \in DOMAIN heap \cup {o} |->
                  IF x = o THEN NewMessage(o, k, data) ELSE heap[x]]
    /\ op' = <<"new", o>>
    /\ Step("new")
    /\ UNCHANGED <<promoted, kinds, wire, mdata, result>>
    /\ UNCHANGED <<bufferVars, auxVars>>

\* asdict(self)['metadata']: the dataclass fields of Metadata, read on the
\* instance.
AsDictMetadata(md) == [name \in Fields(promoted) |-> GetAttr(md, name)]

\* Metadata.__eq__, generated at line 23 when `time` was the only field.
MetadataEq(x, y) == GetAttr(x, "time") = GetAttr(y, "time")

\* The __eq__ that make_dataclass generates for a @messagecls class (lines
\* 301-318, eq defaults to True): same class, and the tuples of all fields
\* (id, metadata, payload) are equal.
DataclassEq(x, y) ==
    /\ y.kind = x.kind
    /\ x.id = y.id
    /\ MetadataEq(x.metadata, y.metadata)
    /\ x.data = y.data

\* Message.__eq__ (message.py:211-218): other is an instance of self's class
\* and every entry of other.attributes() -- asdict(other): id, metadata and
\* payload -- is found equal in self.attributes().
MessageEq(x, y) ==
    /\ y.kind = x.kind \/ x.kind = "Message"
    /\ x.id = y.id
    /\ AsDictMetadata(x.metadata) = AsDictMetadata(y.metadata)
    /\ DOMAIN y.data \subseteq DOMAIN x.data
    /\ \A name \in DOMAIN y.data : x.data[name] = y.data[name]

\* x == y
Equal(x, y) == IF Decorated(x.kind) THEN DataclassEq(x, y) ELSE MessageEq(x, y)

Compare(x, y) ==
    /\ x \in DOMAIN heap
    /\ y \in DOMAIN heap
    /\ result' = Some([left |-> x, right |-> y,
                       outcome |-> Equal(heap[x], heap[y])])
    /\ op' = <<"==", x, y>>
    /\ UNCHANGED <<promoted, heap, kinds, steps, wire, mdata>>
    /\ UNCHANGED <<bufferVars, auxVars>>

Kinds == {"Message", "Plain"} \cup DecoratedKinds

InitEq ==
    /\ NoMessageDB
    /\ promoted = 1
    /\ heap = <<>>
    /\ kinds = <<>>
    /\ op = <<>>
    /\ steps = NoSteps
    /\ wire = None
    /\ mdata = None
    /\ result = None

NextEq ==
    \/ \E k \in DecoratedKinds : Count("messagecls") < MaxPasses /\ Messagecls(k)
    \/ \E o \in Objs, k \in Kinds : \E data \in Payloads(k) : Create(o, k, data)
    \/ \E o \in DOMAIN heap, name \in SerdeNames : \E v \in ValuesOf(name) :
          Count("set") < MaxSets /\ SetMetadata(o, name, v)
    \/ \E x \in Objs, y \in Objs : Compare(x, y)

SpecEq == InitEq /\ [][NextEq]_vars

(***************************************************************************)
(* The JSON codec.  eventide.utils.jdumps, jloads and dense_dict are not   *)
(* among the sources; they are modelled from the specification: an         *)
(* encode / decode pair with deterministic (sorted) key order that keeps   *)
(* nulls, and a filter that drops the entries whose value is None.  A JSON *)
(* object is the sequence of its <<key, literal>> members.                 *)
(***************************************************************************)
Literals ==
    {<<None, "null">>, <<Some("int:1"), "1">>, <<Some("int:2"), "2">>,
     <<Some("str:x"), "\"x\"">>, <<Some("str:v1"), "\"v1\"">>,
     <<Some("float:1.5"), "1.5">>, <<Some("str:order-1"), "\"order-1\"">>,
     <<Some("str:order-2"), "\"order-2\"">>}

JsonLiteral(v) == (CHOOSE p \in Literals : p[1] = v)[2]

PyValue(text) == (CHOOSE p \in Literals : p[2] = text)[1]

KeyOrder == <<"a", "b", "causation_message_global_position",
              "causation_message_position", "causation_message_stream_name",
              "correlation_stream_name", "global_position", "position",
              "reply_stream_name", "schema_version", "stream_name", "time",
              "trace_id">>

Jdumps(d) ==
    LET keys == SelectSeq(KeyOrder, LAMBDA k : k \in DOMAIN d)
    IN  [i \in 1..Len(keys) |-> <<keys[i], JsonLiteral(d[keys[i]])>>]

Jloads(text) ==
    [k \in {text[i][1] : i \in 1..Len(text)} |->
        PyValue(text[CHOOSE i \in 1..Len(text) : text[i][1] = k][2])]

DenseDict(d) == [k \in {x \in DOMAIN d : d[x] # None} |-> d[k]]

(***************************************************************************)
(* serialize, from_record, from_messagedata.  wire, mdata and result are   *)
(* the locals of one passage of a message through the store: the tuple     *)
(* serialize returned, the MessageData from_record built from a row, and   *)
(* the outcome of from_messagedata on that MessageData.  Starting a stage  *)
(* again discards the values of the stages after it.                       *)
(***************************************************************************)
\* str(uuid)
Str(id) == <<"str", id[2]>>

\* Message.serialize (message.py:237-260).
SerializeMessage(m, stream_name, expected_version) ==
    SerializedMessage(Str(m.id), stream_name, m.kind,
                      Jdumps(m.data),
                      Jdumps(DenseDict(AsDictMetadata(m.metadata))),
                      expected_version)

Serialize(o) ==
    /\ o \in DOMAIN heap
    /\ wire' = Some(SerializeMessage(heap[o], "order-1", None))
    /\ mdata' = None
    /\ result' = None
    /\ op' = <<"serialize", o>>
    /\ UNCHANGED <<promoted, heap, kinds, steps>>
    /\ UNCHANGED <<bufferVars, auxVars>>

\* The row the store returns for a message it was given: the columns of the
\* wire tuple and the positions and time the store assigned.
RowFor(w) ==
    [type |-> w.type, stream_name |-> w.stream_name, data |-> w.data,
     metadata |-> w.metadata, id |-> w.id, position |-> 0,
     global_position |-> 1, time |-> "float:1.5"]

\* Rows written by other clients of the store.
ForeignRow(type, metadata) ==
    [type |-> type, stream_name |-> "order-2",
     data |-> <<<<"a", "1">>, <<"b", "null">>>>, metadata |-> metadata,
     id |-> <<"str", "other">>, position |-> 0, global_position |-> 2,
     time |-> "float:1.5"]

ForeignRows ==
    {ForeignRow("Foo", <<<<"trace_id", "\"x\"">>>>),
     ForeignRow("Foo", <<<<"time", "1.5">>>>),
     ForeignRow("Other", <<>>)}

Rows == ForeignRows \cup (IF wire = None THEN {} ELSE {RowFor(wire[1])})

\* MessageData.from_record (message.py:113-119).
MessageDataFromRecord(record) ==
    [record EXCEPT !.data = Jloads(@), !.metadata = Jloads(@)]

FromRecord(record) ==
    /\ mdata' = Some(MessageDataFromRecord(record))
    /\ result' = None
    /\ op' = <<"from_record">>
    /\ UNCHANGED <<promoted, heap, kinds, steps, wire>>
    /\ UNCHANGED <<bufferVars, auxVars>>

Raised(error) == [outcome |-> error, msg |-> None]

\* The parameters of Metadata.__init__, generated at line 23.
MetadataInitParams == Fields(1)

\* Message.from_messagedata with strict never consulted.
MessageFromMessagedataLax(k, data, strict) ==
    LET meta_obj == [key \in DOMAIN data.metadata \cap MetaFieldsOf(k) |->
                        data.metadata[key]]
    IN  IF DOMAIN data.data # KindPayload(k) THEN Raised("TypeError")
        ELSE IF ~(DOMAIN meta_obj \subseteq MetadataInitParams)
        THEN Raised("TypeError")
        ELSE [outcome |-> "ok",
              msg |-> Some([id |-> data.id, kind |-> k,
                            metadata |-> [name \in {"time"} |->
                                IF "time" \in DOMAIN meta_obj
                                THEN meta_obj["time"] ELSE None],
                            data |-> data.data])]

\* Message.from_messagedata (message.py:184-209): the outcome of
\* k.from_messagedata(data, strict).
MessageFromMessagedata(k, data, strict) ==
    LET meta_obj == [key \in DOMAIN data.metadata \cap MetaFieldsOf(k) |->
                        data.metadata[key]]
    IN  IF strict /\ data.type # k THEN Raised("ValueError")
        ELSE IF strict /\ ~(DOMAIN data.metadata \subseteq MetaFieldsOf(k))
        THEN Raised("ValueError")
        ELSE IF DOMAIN data.data # KindPayload(k) THEN Raised("TypeError")
        ELSE IF ~(DOMAIN meta_obj \subseteq MetadataInitParams)
        THEN Raised("TypeError")
        ELSE [outcome |-> "ok",
              msg |-> Some([id |-> data.id, kind |-> k,
                            metadata |-> [name \in {"time"} |->
                                IF "time" \in DOMAIN meta_obj
                                THEN meta_obj["time"] ELSE None],
                            data |-> data.data])]

FromMessagedata(k, strict) ==
    /\ Defined(k)
    /\ mdata # None
    /\ LET r == MessageFromMessagedata(k, mdata[1], strict)
       IN  result' = Some([kind |-> k, strict |-> strict,
                           outcome |-> r.outcome, msg |-> r.msg])
    /\ op' = <<"from_messagedata", k>>
    /\ UNCHANGED <<promoted, heap, kinds, steps, wire, mdata>>
    /\ UNCHANGED <<bufferVars, auxVars>>

SerdeObjs == {"m1"}

InitSerde == InitEq

NextSerde ==
    \/ \E k \in DecoratedKinds : Count("messagecls") < MaxPasses /\ Messagecls(k)
    \/ \E o \in SerdeObjs, k \in Kinds : \E data \in Payloads(k) :
          Create(o, k, data)
    \/ \E o \in DOMAIN heap, name \in SerdeNames : \E v \in ValuesOf(name) :
          Count("set") < MaxSets /\ SetMetadata(o, name, v)
    \/ \E o \in SerdeObjs : Serialize(o)
    \/ \E record \in Rows : FromRecord(record)
    \/ \E k \in Kinds, strict \in BOOLEAN : FromMessagedata(k, strict)

SpecSerde == InitSerde /\ [][NextSerde]_vars

(***************************************************************************)
(* Claims about equality and the round trip through the store.             *)
(***************************************************************************)
SameKindAndPayload(x, y) == x.kind = y.kind /\ x.data = y.data

\* C8: message equality ignores id and metadata; x == y holds exactly when
\* x and y are of the same kind and have the same payload.
C8_EqualityIgnoresIdAndMetadata ==
    \A x \in Objs, y \in Objs :
        op = <<"==", x, y>> =>
            (result[1].outcome <=> SameKindAndPayload(heap[x], heap[y]))

\* The MessageData a reader gets for message o as it is now: o serialized,
\* stored, and its row read back.
Stored(o) == MessageDataFromRecord(RowFor(SerializeMessage(heap[o], "order-1", None)))

\* C9: serializing a message and deserializing the stored form into the
\* message's own kind with strict=False yields a message with exactly the
\* same payload.
C9_PayloadRoundTrip ==
    \A o \in DOMAIN heap :
        (/\ result # None
         /\ mdata = Some(Stored(o))
         /\ result[1].kind = heap[o].kind
         /\ ~result[1].strict)
        => /\ result[1].outcome = "ok"
           /\ result[1].msg[1].data = heap[o].data

Mismatch(k, data) ==
    \/ data.type # k
    \/ ~(DOMAIN data.metadata \subseteq MetaFieldsOf(k))

\* C10: with strict=True, a record whose type name is not the target
\* kind's name, or whose metadata has a key that is not a metadata field of
\* the target kind, gives the schema-mismatch error (the ValueError of lines
\* 188 and 199) and no message object.
C10_StrictDeserialize ==
    (/\ result # None
     /\ result[1].strict
     /\ Mismatch(result[1].kind, mdata[1]))
    => /\ result[1].outcome = "ValueError"
       /\ result[1].msg = None

C10_Witness ==
    /\ result # None
    /\ result[1].strict
    /\ mdata[1].type # result[1].kind
    /\ DOMAIN mdata[1].metadata \subseteq MetaFieldsOf(result[1].kind)
    /\ result[1].outcome = "ValueError"

\* The stored metadata entries whose keys are metadata fields of kind k.
DeclaredEntries(k, data) ==
    [key \in DOMAIN data.metadata \cap MetaFieldsOf(k) |-> data.metadata[key]]

\* C11: with strict=False a record whose payload fits the target kind always
\* deserializes, whatever its type name and metadata keys; the message has
\* the stored id, and its metadata holds exactly the stored entries whose
\* keys are metadata fields of the target kind.
C11_NonStrictDeserialize ==
    (/\ result # None
     /\ ~result[1].strict
     /\ DOMAIN mdata[1].data = KindPayload(result[1].kind))
    => /\ result[1].outcome = "ok"
       /\ result[1].msg[1].id = mdata[1].id
       /\ DenseDict([name \in DOMAIN result[1].msg[1].metadata |->
                        result[1].msg[1].metadata[name]])
            = DeclaredEntries(result[1].kind, mdata[1])

(***************************************************************************)
(* Stream names (message_store.py:49-76, message.py:133-157).  A str is    *)
(* the sequence of its characters.                                         *)
(***************************************************************************)
DELIM == "-"
CARD_DELIM == "+"

Alphabet == {"o", "1", DELIM, CARD_DELIM, ":"}

Strings == UNION {[1..n -> Alphabet] : n \in 0..MaxLen}

In(ch, str) == \E i \in 1..Len(str) : str[i] = ch

Find(ch, str) == CHOOSE i \in 1..Len(str) : str[i] = ch /\ \A j \in 1..(i - 1) : str[j] # ch

\* str.split(sep, maxsplit) for a one-character sep; maxsplit = -1 is no
\* limit.
RECURSIVE StrSplit(_, _, _)
StrSplit(str, sep, maxsplit) ==
    IF maxsplit = 0 \/ ~In(sep, str) THEN <<str>>
    ELSE <<SubSeq(str, 1, Find(sep, str) - 1)>>
         \o StrSplit(SubSeq(str, Find(sep, str) + 1, Len(str)), sep,
                     IF maxsplit < 0 THEN maxsplit ELSE maxsplit - 1)

\* MessageStore.category
Category(stream) == StrSplit(stream, DELIM, -1)[1]

\* MessageStore.is_category
IsCategory(stream) == ~In(DELIM, stream)

\* stream.split(DELIM)[1]: the id cut at the second separator.
StreamIdSecondPart(stream) ==
    IF ~In(DELIM, stream) THEN None ELSE Some(StrSplit(stream, DELIM, -1)[2])

\* MessageStore.stream_id
StreamId(stream) ==
    IF ~In(DELIM, stream) THEN None ELSE Some(StrSplit(stream, DELIM, 1)[2])

\* MessageStore.stream_cardinal_id
StreamCardinalId(stream) ==
    IF ~In(DELIM, stream) THEN None
    ELSE Some(StrSplit(StrSplit(stream, DELIM, 1)[2], CARD_DELIM, -1)[1])

\* MessageData.category, is_category, stream_id, cardinal_id and command,
\* of a MessageData whose stream_name is `stream`.
DataCategory(stream) == StrSplit(stream, "-", -1)[1]

DataIsCategory(stream) == ~In("-", stream)

DataStreamId(stream) ==
    IF ~In("-", stream) THEN None ELSE Some(StrSplit(stream, "-", 1)[2])

DataCardinalId(stream) ==
    IF ~In("-", stream) THEN None
    ELSE Some(StrSplit(StrSplit(stream, "-", 1)[2], "+", -1)[1])

DataCommand(stream) ==
    IF ~In(":", DataCategory(stream)) THEN None
    ELSE Some(StrSplit(StrSplit(DataCategory(stream), ":", 1)[2], "-", -1)[1])

\* One client call of each parser on the same stream name.
Parse(stream) ==
    /\ arg = Some(stream)
    /\ out = None
    /\ out' = Some([category |-> Category(stream),
               is_category |-> IsCategory(stream),
               stream_id |-> StreamId(stream),
               cardinal_id |-> StreamCardinalId(stream),
               data_category |-> DataCategory(stream),
               data_is_category |-> DataIsCategory(stream),
               data_stream_id |-> DataStreamId(stream),
               data_cardinal_id |-> DataCardinalId(stream),
               data_command |-> DataCommand(stream)])
    /\ UNCHANGED <<bufferVars, messageVars, arg, storeVars, poolVars>>

\* The client holds a stream name and has not parsed it yet.
InitStream ==
    /\ \E stream \in Strings : arg = Some(stream)
    /\ out = None
    /\ clock = 0
    /\ txn = [c \in Clients |-> None]
    /\ call = None
    /\ pool = NoPool
    /\ setup = [c \in Clients |-> "idle"]
    /\ maxsize = 0
    /\ pending = <<>>
    /\ putters = <<>>
    /\ pc = [p \in Producers |-> "idle"]
    /\ item = [p \in Producers |-> None]
    /\ nextId = 1
    /\ store = <<>>
    /\ flush = NoFlush
    /\ NoMessages

NextStream == arg # None /\ Parse(arg[1])

SpecStream == InitStream /\ [][NextStream]_vars

\* The text of str before position i, and after it.
Before(str, i) == [j \in 1..(i - 1) |-> str[j]]

After(str, i) == [j \in 1..(Len(str) - i) |-> str[i + j]]

FirstAt(ch, str, i) == str[i] = ch /\ \A j \in 1..(i - 1) : str[j] # ch

Truncated(str, ch) ==
    IF In(ch, str) THEN Before(str, Find(ch, str)) ELSE str

\* C12: the parts of a stream name compose back to it.  With a separator:
\* category is the text before the first '-', stream_id the text after it,
\* cardinal_id is stream_id cut at the first '+', and
\* category + '-' + stream_id is the name.  Without: category is the name,
\* is_category is true, stream_id and cardinal_id are None.
C12_StreamRoundTrip ==
    out # None =>
        LET str == arg[1]
            o == out[1]
        IN  /\ \A i \in 1..Len(str) : FirstAt(DELIM, str, i) =>
                  /\ o.category = Before(str, i)
                  /\ ~o.is_category
                  /\ o.stream_id = Some(After(str, i))
                  /\ o.cardinal_id = Some(Truncated(After(str, i), CARD_DELIM))
                  /\ o.category \o <<DELIM>> \o o.stream_id[1] = str
            /\ (\A i \in 1..Len(str) : str[i] # DELIM) =>
                  /\ o.category = str
                  /\ o.is_category
                  /\ o.stream_id = None
                  /\ o.cardinal_id = None
            /\ o.data_category = o.category
            /\ o.data_is_category = o.is_category
            /\ o.data_stream_id = o.stream_id
            /\ o.data_cardinal_id = o.cardinal_id

C12_Witness ==
    /\ arg = Some(<<"o", "-", "1", "+", "o">>)
    /\ out # None
    /\ out[1].category = <<"o">>
    /\ out[1].stream_id = Some(<<"1", "+", "o">>)
    /\ out[1].cardinal_id = Some(<<"1">>)

(***************************************************************************)
(* The ordering of MessageData (message.py:96-131).  The class defines     *)
(* __gt__, __ge__ and __eq__; @total_ordering takes __gt__ as the root and *)
(* adds __lt__ as (not a > b) and a != b, and __le__ as not a > b.         *)
(* @dataclass keeps the __eq__ the class defines.                          *)
(***************************************************************************)
DataGt(a, b) == a.global_position > b.global_position

DataGe(a, b) == a.global_position >= b.global_position

DataEq(a, b) ==
    /\ a.stream_name = b.stream_name
    /\ a.type = b.type
    /\ a.data = b.data
    /\ a.metadata = b.metadata

DataLt(a, b) == ~DataGt(a, b) /\ ~DataEq(a, b)

DataLe(a, b) == ~DataGt(a, b)

\* Rows read from the store: the same event may be written again to the
\* same stream, and then gets a new id and new positions; no two rows have
\* the same global_position.
DataValues ==
    {[type |-> t, stream_name |-> stream, data |-> <<>>, metadata |-> <<>>,
      id |-> <<"str", "row", g>>, position |-> 0, global_position |-> g,
      time |-> "float:1.5"] :
        t \in Types, stream \in {"order-1", "order-2"}, g \in 1..MaxPos}

CompareData ==
    /\ arg # None
    /\ out = None
    /\ LET a == arg[1][1]
           b == arg[1][2]
       IN  out' = Some([lt |-> DataLt(a, b), le |-> DataLe(a, b),
                        gt |-> DataGt(a, b), ge |-> DataGe(a, b),
                        eq |-> DataEq(a, b)])
    /\ UNCHANGED <<bufferVars, messageVars, arg, storeVars, poolVars>>

InitOrder ==
    /\ \E a \in DataValues, b \in DataValues :
          /\ a.global_position = b.global_position => a = b
          /\ arg = Some(<<a, b>>)
    /\ out = None
    /\ clock = 0
    /\ txn = [c \in Clients |-> None]
    /\ call = None
    /\ pool = NoPool
    /\ setup = [c \in Clients |-> "idle"]
    /\ maxsize = 0
    /\ pending = <<>>
    /\ putters = <<>>
    /\ pc = [p \in Producers |-> "idle"]
    /\ item = [p \in Producers |-> None]
    /\ nextId = 1
    /\ store = <<>>
    /\ flush = NoFlush
    /\ NoMessages

NextOrder == CompareData

SpecOrder == InitOrder /\ [][NextOrder]_vars

\* C13: the order of MessageData is the order of global_position alone:
\* a < b iff a.global_position < b.global_position, and likewise for <=, >
\* and >=, whatever the other fields are.
C13_OrderByGlobalPosition ==
    out # None =>
        LET a == arg[1][1]
            b == arg[1][2]
        IN  /\ out[1].lt <=> a.global_position < b.global_position
            /\ out[1].le <=> a.global_position <= b.global_position
            /\ out[1].gt <=> a.global_position > b.global_position
            /\ out[1].ge <=> a.global_position >= b.global_position

(***************************************************************************)
(* Clients of the store (messagedb.py:91-106, 150-159, 206-255;            *)
(* message_store.py:207-210 over database.py:110-119).  The backend is     *)
(* Message DB: write_message runs in a transaction of its own, the `time`  *)
(* column of the row is the time that transaction started, and             *)
(* global_position is assigned when the row is inserted.  Transactions of  *)
(* different connections overlap.                                          *)
(***************************************************************************)
\* What can go wrong in one backend call of MessageDB: acquiring the
\* connection fails, the server reports an error, or anything else raises
\* (a dropped network connection).
Faults == {"none", "acquire", "PostgresError", "Exception"}

\* MessageDB.connection: what the caller receives for a failure.  Acquiring
\* happens outside the try block; RaiseError and any other Exception become
\* MessageDBError; a PostgresError is raised again.
Surfaced(failure) ==
    IF failure = "acquire" THEN "ConnectionError"
    ELSE IF failure = "PostgresError" THEN "PostgresError"
    ELSE "MessageDBError"

Completed(name, target, failure, outcome, value) ==
    Some([op |-> name, target |-> target, failure |-> failure, outcome |-> outcome,
          value |-> value, rows_before |-> Len(store)])

StoredRow(msg, rows, time) ==
    [type |-> msg.type, stream_name |-> msg.stream_name, data |-> msg.data,
     metadata |-> msg.metadata, id |-> msg.id,
     position |-> StreamVersion(rows, msg.stream_name) + 1,
     global_position |-> Len(rows) + 1, time |-> time]

\* write_message, up to the point where the backend has started the
\* transaction.
BeginWrite(c, t, expected_version) ==
    /\ txn[c] = None
    /\ txn' = [txn EXCEPT ![c] =
                 Some([msg |-> SerializedMessage(<<"str", nextId>>, StreamOf(t), t,
                                                 Jdumps(<<>>), Jdumps(<<>>),
                                                 expected_version),
                       time |-> clock])]
    /\ nextId' = nextId + 1
    /\ UNCHANGED <<maxsize, pending, putters, pc, item, store, flush>>
    /\ UNCHANGED <<messageVars, arg, out, clock, call, poolVars>>

\* write_message, from the insert to the return.
FinishWrite(c, fault) ==
    /\ txn[c] # None
    /\ LET msg == txn[c][1].msg
           failure ==
               IF fault # "none" THEN fault
               ELSE IF /\ msg.expected_version # None
                       /\ msg.expected_version
                            # Some(StreamVersion(store, msg.stream_name))
               THEN "RaiseError" ELSE "none"
           row == StoredRow(msg, store, txn[c][1].time)
       IN  IF failure = "none"
           THEN /\ store' = Append(store, row)
                /\ call' = Completed("write_message", msg.stream_name, failure, "ok",
                                     Some(row.position))
           ELSE /\ store' = store
                /\ call' = Completed("write_message", msg.stream_name, failure,
                                     Surfaced(failure), None)
    /\ txn' = [txn EXCEPT ![c] = None]
    /\ UNCHANGED <<maxsize, pending, putters, pc, item, nextId, flush>>
    /\ UNCHANGED <<messageVars, arg, out, clock, poolVars>>

Tick ==
    /\ clock' = clock + 1
    /\ UNCHANGED <<bufferVars, messageVars, arg, out, txn, call, poolVars>>

\* The rows `ORDER BY time DESC LIMIT 1` may return (messagedb.py:56-61).
Latest(rows) ==
    {rows[i] : i \in {i \in 1..Len(rows) :
                        \A j \in 1..Len(rows) : rows[j].time <= rows[i].time}}

\* get_last_message (messagedb.py:210-213): fetchrow gives None for no row,
\* and from_record(None) raises TypeError inside the connection block.
GetLastMessage(fault) ==
    /\ IF fault # "none"
       THEN call' = Completed("get_last_message", "", fault, Surfaced(fault), None)
       ELSE IF store = <<>>
       THEN call' = Completed("get_last_message", "", "none",
                              Surfaced("TypeError"), None)
       ELSE \E res \in Latest(store) :
               call' = Completed("get_last_message", "", "none", "ok",
                                 Some(MessageDataFromRecord(res)))
    /\ UNCHANGED <<bufferVars, messageVars, arg, out, clock, txn, poolVars>>

\* get_last_stream_message (messagedb.py:246-255).
GetLastStreamMessage(stream, fault) ==
    /\ LET found == StreamRows(store, stream)
       IN  IF fault # "none"
           THEN call' = Completed("get_last_stream_message", stream, fault,
                                  Surfaced(fault), None)
           ELSE IF found = <<>>
           THEN call' = Completed("get_last_stream_message", stream, "none", "ok", None)
           ELSE call' = Completed("get_last_stream_message", stream, "none", "ok",
                                  Some(MessageDataFromRecord(found[Len(found)])))
    /\ UNCHANGED <<bufferVars, messageVars, arg, out, clock, txn, poolVars>>

\* What can go wrong in one backend call of MessageStore.
CursorFaults == {"none", "acquire", "DatabaseError"}

\* MessageStore.get_stream_version (message_store.py:207-210) inside
\* Database.cursor (database.py:110-119): a DatabaseError raised in the
\* block is logged and the block is left, so the method ends without a
\* return statement.
StoreGetStreamVersion(stream, fault) ==
    /\ IF fault = "acquire"
       THEN call' = Completed("get_stream_version", stream, fault, "ConnectionError", None)
       ELSE IF fault = "DatabaseError"
       THEN call' = Completed("get_stream_version", stream, fault, "ok", None)
       ELSE call' = Completed("get_stream_version", stream, "none", "ok",
                              IF StreamRows(store, stream) = <<>> THEN None
                              ELSE Some(StreamVersion(store, stream)))
    /\ UNCHANGED <<bufferVars, messageVars, arg, out, clock, txn, poolVars>>

InitStore == NoMessageDB /\ NoMessages

NextStore ==
    \/ \E c \in Clients, t \in Types, ev \in ExpectedVersions :
          nextId <= MaxRows /\ BeginWrite(c, t, ev)
    \/ \E c \in Clients, fault \in Faults : FinishWrite(c, fault)
    \/ clock < MaxClock /\ Tick
    \/ \E fault \in Faults : GetLastMessage(fault)
    \/ \E t \in Types, fault \in Faults : GetLastStreamMessage(StreamOf(t), fault)
    \/ \E t \in Types, fault \in CursorFaults :
          StoreGetStreamVersion(StreamOf(t), fault)

SpecStore == InitStore /\ [][NextStore]_vars

\* C14: get_last_message never returns a record with a smaller
\* global_position than a write committed before the call.
C14_LastMessageMonotonic ==
    (/\ call # None
     /\ call[1].op = "get_last_message"
     /\ call[1].outcome = "ok")
    => \A i \in 1..Len(store) :
          store[i].global_position <= call[1].value[1].global_position

\* C15: get_last_message on a store without messages, and
\* get_last_stream_message on a stream without messages, return None and do
\* not raise.
C15_AbsentResults ==
    (/\ call # None
     /\ call[1].failure = "none")
    => /\ (call[1].op = "get_last_message" /\ store = <<>>)
            => (call[1].outcome = "ok" /\ call[1].value = None)
       /\ (/\ call[1].op = "get_last_stream_message"
           /\ StreamRows(store, call[1].target) = <<>>)
            => (call[1].outcome = "ok" /\ call[1].value = None)

\* C16: when the backend fails during a client operation the caller gets an
\* error outcome, not a normal result, and no row is written.
C16_ErrorsSurfaced ==
    (/\ call # None
     /\ call[1].failure # "none")
    => /\ call[1].outcome # "ok"
       /\ Len(store) = call[1].rows_before

(***************************************************************************)
(* Further claims about write_pending_messages.                            *)
(***************************************************************************)
Holds(q, id) == \E i \in 1..Len(q) : q[i].id = id

\* C17: a write_pending_messages call whose writes all succeed returns, the
\* buffer is empty at that instant, and every message it took from the
\* buffer is written.
SnapshotDrainStep ==
    flush' # flush =>
        /\ flush'.outcome = "returned"
        /\ pending' = <<>>
        /\ \A i \in 1..Len(flush'.drained) :
              \E j \in 1..Len(store') : store'[j].id = flush'.drained[i].id

C17_SnapshotDrain == [][SnapshotDrainStep]_vars

C19_ConcurrentFlushes ==
    /\ \A i \in 1..Len(flush.drained) : flush.drained[i].id \notin flush.earlier
    /\ \A i, j \in 1..Len(flush.drained) :
          flush.drained[i].id = flush.drained[j].id => i = j
    /\ \A id \in Taken : ~Holds(pending, id)
    /\ \A id \in Taken : \A p \in Producers : item[p] = None \/ item[p][1].id # id
    /\ flush.outcome \in {"none", "returned", "raised"}

\* Two calls have each taken messages out of the buffer, and a message
\* enqueued since is waiting in it.
C19_Witness ==
    /\ flush.earlier # {}
    /\ flush.drained # <<>>
    /\ pending # <<>>

(***************************************************************************)
(* setup and shutdown (messagedb.py:108-132).  setup suspends at           *)
(* `await asyncpg.create_pool(...)` between the test of self._pool and the *)
(* assignment to it, and again while it sets the json codec.               *)
(***************************************************************************)
\* MessageDB.connected
Connected == pool.current # None /\ pool.current[1] \notin pool.closed

\* setup(), up to its first suspension.
SetupBegin(c) ==
    /\ setup[c] = "idle"
    /\ setup' = [setup EXCEPT ![c] =
                   IF pool.current = None THEN "creating" ELSE "codec"]
    /\ pool' = [pool EXCEPT !.calls = @ + 1]
    /\ UNCHANGED <<bufferVars, messageVars, arg, out, storeVars>>

\* create_pool returns a new pool, which setup assigns, or raises.
SetupCreated(c, ok) ==
    /\ setup[c] = "creating"
    /\ IF ok
       THEN /\ pool' = [pool EXCEPT !.current = Some(pool.created + 1),
                                    !.created = @ + 1]
            /\ setup' = [setup EXCEPT ![c] = "codec"]
       ELSE /\ pool' = pool
            /\ setup' = [setup EXCEPT ![c] = "idle"]
    /\ UNCHANGED <<bufferVars, messageVars, arg, out, storeVars>>

\* The json codec is set on a connection of the pool, or acquiring one
\* raises; setup ends.
SetupCodec(c) ==
    /\ setup[c] = "codec"
    /\ setup' = [setup EXCEPT ![c] = "idle"]
    /\ UNCHANGED <<bufferVars, messageVars, arg, out, storeVars, pool>>

\* shutdown(): closes the pool; self._pool keeps referring to it.
Shutdown ==
    /\ Connected
    /\ pool' = [pool EXCEPT !.closed = @ \cup {pool.current[1]}]
    /\ UNCHANGED <<bufferVars, messageVars, arg, out, storeVars, setup>>

InitPool == NoMessageDB /\ NoMessages

NextPool ==
    \/ \E c \in Clients : pool.calls < MaxSetups /\ SetupBegin(c)
    \/ \E c \in Clients, ok \in BOOLEAN : SetupCreated(c, ok)
    \/ \E c \in Clients : SetupCodec(c)
    \/ Shutdown

SpecPool == InitPool /\ [][NextPool]_vars

\* C20: whatever the interleaving of setup() and shutdown() calls, at most
\* one connection pool is ever created for a MessageDB.
C20_SinglePool == pool.created <= 1

(***************************************************************************)
(* A chain of messages m(0), ..., m(MaxChain) (message.py:73-83, 230-232). *)
(* Each has the stream name and positions the store gave it; m(0) may      *)
(* carry a correlation stream and a reply stream.  Then m(1) follows m(0), *)
(* m(2) follows m(1), and so on; do_not_reply may be called on any of them *)
(* at any time.                                                            *)
(***************************************************************************)
Chain == 0..MaxChain

\* Metadata.do_not_reply (message.py:73-75), on the Metadata of message o.
DoNotReply(o) ==
    /\ heap' = HeapSet(heap, o, "reply_stream_name", None)
    /\ op' = <<"do_not_reply", o>>
    /\ Step("do_not_reply")
    /\ UNCHANGED <<promoted, kinds, wire, mdata, result>>
    /\ UNCHANGED <<bufferVars, auxVars>>

\* Assign each attribute named in `values` on a Metadata, as a client does.
Assigned(md, values) ==
    [name \in DOMAIN md \cup DOMAIN values |->
        IF name \in DOMAIN values THEN values[name] ELSE md[name]]

OwnValues ==
    {[stream_name |-> stream, position |-> pos, global_position |-> pos] :
        stream \in StreamNames, pos \in {Some("int:1"), Some("int:2")}}

\* What m(0) carries besides: nothing assigned, or a correlation stream
\* with or without a reply stream.
RootValues ==
    {<<>>}
    \cup {[correlation_stream_name |-> stream] : stream \in StreamNames}
    \cup {[correlation_stream_name |-> stream, reply_stream_name |-> reply] :
            stream \in StreamNames, reply \in {Some("str:order-2")}}

InitChain ==
    /\ NoMessageDB
    /\ promoted = 1
    /\ \E own \in [Chain -> OwnValues], root \in RootValues :
          heap = [o \in Chain |->
                    [NewMessage(o, "Message", <<>>) EXCEPT !.metadata =
                        Assigned(Assigned(@, own[o]),
                                 IF o = 0 THEN root ELSE <<>>)]]
    /\ kinds = <<>>
    /\ op = <<>>
    /\ steps = NoSteps
    /\ wire = None
    /\ mdata = None
    /\ result = None

NextChain ==
    \/ \E o \in Chain : o = Count("follow") + 1 /\ Follow(o, o - 1)
    \/ \E o \in Chain : Count("do_not_reply") < MaxNoReply /\ DoNotReply(o)

SpecChain == InitChain /\ [][NextChain]_vars

\* C21: along a chain in which each message follows the one before it and
\* no do_not_reply intervenes, every message after the first has the
\* correlation_stream_name and reply_stream_name of the first message, and
\* its causation stream name and positions are the own stream name and
\* positions of its direct parent.
C21_ChainProvenance ==
    Count("do_not_reply") = 0 =>
        \A o \in 1..Count("follow") :
            /\ HeapGet(heap, o, "correlation_stream_name")
                 = HeapGet(heap, 0, "correlation_stream_name")
            /\ HeapGet(heap, o, "reply_stream_name")
                 = HeapGet(heap, 0, "reply_stream_name")
            /\ HeapGet(heap, o, "causation_message_stream_name")
                 = HeapGet(heap, o - 1, "stream_name")
            /\ HeapGet(heap, o, "causation_message_position")
                 = HeapGet(heap, o - 1, "position")
            /\ HeapGet(heap, o, "causation_message_global_position")
                 = HeapGet(heap, o - 1, "global_position")

\* The whole chain has been followed; the last message's parent and
\* grandparent are in different streams at different positions, and the
\* last message carries the correlation and reply streams of the first.
C21_Witness ==
    /\ Count("follow") = MaxChain
    /\ Count("do_not_reply") = 0
    /\ HeapGet(heap, MaxChain - 1, "stream_name")
         # HeapGet(heap, MaxChain - 2, "stream_name")
    /\ HeapGet(heap, MaxChain - 1, "position")
         # HeapGet(heap, MaxChain - 2, "position")
    /\ HeapGet(heap, MaxChain, "causation_message_stream_name")
         = HeapGet(heap, MaxChain - 1, "stream_name")
    /\ HeapGet(heap, MaxChain, "correlation_stream_name") \in StreamNames
    /\ HeapGet(heap, MaxChain, "reply_stream_name") = Some("str:order-2")

====
